---- MODULE Spec2Model ----
(***************************************************************************)
(* Model of the YAML-driven browser test runner:                           *)
(*   parser/script_parser.py   TestStep, TestScript.from_dict,             *)
(*                             ScriptParser.parse_file / validate_script   *)
(*   engine/actions.py         BrowserActions.execute_action               *)
(*   engine/browser_engine.py  TestResult, BrowserEngine                   *)
(*   cli/main.py               run_tests, main                             *)
(*                                                                         *)
(* Text is modelled as a sequence of one-character strings, a YAML mapping *)
(* as a function whose DOMAIN is the set of keys present, Python's None as *)
(* the id 0 (for object references) or a record of kind "none".            *)
(***************************************************************************)
EXTENDS Integers, Sequences, FiniteSets, TLC

\* ------------------------------------------------------------------ bounds
\* number of script paths on the command line
MaxBatch == 2
\* number of steps in a script file
MaxSteps == 2

\* ------------------------------------------------------ script_parser.py
DefaultName == <<"U", "n", "n", "a", "m", "e", "d", " ", "T", "e", "s", "t">>
DefaultTimeout == 30000

\* dict.get(key, default)
Get(data, key, default) == IF key \in DOMAIN data THEN data[key] ELSE default

\* TestStep(action=step.pop('action'), **step): the remaining keys are params
TestStep(step) ==
    [action |-> step["action"],
     params |-> [k \in (DOMAIN step) \ {"action"} |-> step[k]]]

\* step.pop('action') raises KeyError when a step has no 'action' key
FromDictRaises(data) ==
    \E j \in 1..Len(Get(data, "steps", <<>>)) :
        "action" \notin DOMAIN Get(data, "steps", <<>>)[j]

\* TestScript.from_dict: every absent key takes its default
from_dict(data) ==
    [name |-> Get(data, "name", DefaultName),
     description |-> Get(data, "description", <<>>),
     headless |-> Get(data, "headless", TRUE),
     timeout |-> Get(data, "timeout", DefaultTimeout),
     screenshot_on_failure |-> Get(data, "screenshot_on_failure", TRUE),
     steps |-> [j \in 1..Len(Get(data, "steps", <<>>)) |->
                    TestStep(Get(data, "steps", <<>>)[j])]]

\* ScriptParser.parse_file: the exception it raises, or "ok"
\* a file is [kind |-> "missing"], [kind |-> "notdict"] (valid or broken YAML
\* that does not load to a mapping) or [kind |-> "dict", data |-> mapping]
ParseOutcome(file) ==
    IF file.kind = "missing" THEN "Test script not found"
    ELSE IF file.kind # "dict" THEN "Test script must be a YAML dictionary"
    ELSE IF FromDictRaises(file.data) THEN "KeyError: action"
    ELSE "ok"

parse_file(file) == from_dict(file.data)

\* valid_actions: action name -> required parameter names, in source order
valid_actions ==
    [navigate |-> <<"url">>,
     click |-> <<"selector">>,
     type |-> <<"selector", "text">>,
     wait_for_selector |-> <<"selector">>,
     assert_text |-> <<"selector", "expected">>,
     assert_visible |-> <<"selector">>,
     upload_file |-> <<"selector", "file_path">>,
     screenshot |-> <<"filename">>,
     wait |-> <<"ms">>,
     select_option |-> <<"selector", "value">>,
     check |-> <<"selector">>,
     uncheck |-> <<"selector">>,
     hover |-> <<"selector">>,
     press |-> <<"selector", "key">>,
     evaluate_js |-> <<"script">>,
     count_elements |-> <<"selector">>,
     assert_count |-> <<"selector", "expected">>,
     assert_min_count |-> <<"selector", "minimum">>,
     get_text |-> <<"selector">>]

\* MissingParams that stops at the first missing parameter
MissingParams_FirstOnly(step) ==
    LET Absent(p) == p \notin DOMAIN step.params
        missing == SelectSeq(valid_actions[step.action], Absent)
    IN  IF missing = <<>> THEN <<>> ELSE <<missing[1]>>

\* missing = [p for p in required_params if p not in step.params]
MissingParams(step) ==
    LET Absent(p) == p \notin DOMAIN step.params
    IN  SelectSeq(valid_actions[step.action], Absent)

\* the errors of one step: at most one message
StepErrors(step, i) ==
    IF step.action \notin DOMAIN valid_actions
    THEN <<[kind |-> "unknown_action", step |-> i, action |-> step.action]>>
    ELSE IF MissingParams(step) # <<>>
    THEN <<[kind |-> "missing_params", step |-> i, action |-> step.action,
            missing |-> MissingParams(step)]>>
    ELSE <<>>

RECURSIVE AllStepErrors(_, _)
AllStepErrors(steps, i) ==
    IF i > Len(steps) THEN <<>>
    ELSE StepErrors(steps[i], i) \o AllStepErrors(steps, i + 1)

\* validate_script with the steps check of line 96 written as an elif of
\* the name check of line 93
validate_script_ShortCircuit(script) ==
    (IF script.name = <<>> THEN <<[kind |-> "no_name"]>>
     ELSE IF script.steps = <<>> THEN <<[kind |-> "no_steps"]>>
     ELSE <<>>)
    \o AllStepErrors(script.steps, 1)

\* ScriptParser.validate_script: the list of error messages
validate_script(script) ==
    (IF script.name = <<>> THEN <<[kind |-> "no_name"]>> ELSE <<>>)
    \o (IF script.steps = <<>> THEN <<[kind |-> "no_steps"]>> ELSE <<>>)
    \o AllStepErrors(script.steps, 1)

\* ------------------------------------------------------------ input files
\* an optional key of the YAML mapping: present with value v, or absent
Field(key, opt) == IF opt.has THEN key :> opt.v ELSE <<>>

Present(vals) == [has : {TRUE}, v : vals]
AbsentKey(dflt) == [has |-> FALSE, v |-> dflt]

\* the 'steps' lists of the input files: the script of scenario B, click
\* then assert_text and so on alternately, cut to n steps, and the same
\* with one step replaced by a bad one: an unknown action, an action that
\* lacks a required parameter, an entry without 'action'
GoodStep(j) ==
    IF j % 2 = 1
    THEN [action |-> "click", selector |-> "#a"]
    ELSE [action |-> "assert_text", selector |-> "#b", expected |-> "hi"]

BadSteps ==
    {[action |-> "fly"],
     [action |-> "type", selector |-> "#a"],
     [selector |-> "#a"]}

GoodList(n) == [j \in 1..n |-> GoodStep(j)]

RawStepLists ==
    {GoodList(n) : n \in 0..MaxSteps}
    \cup UNION {{[GoodList(n) EXCEPT ![k] = b] : k \in 1..n, b \in BadSteps} :
                n \in 1..MaxSteps}

NameOpts == Present({<<>>, <<"a", " ", "b">>})
HeadlessOpts == Present({FALSE}) \cup {AbsentKey(TRUE)}
ShotOpts == Present({FALSE}) \cup {AbsentKey(TRUE)}
StepsOpts == Present(RawStepLists)

Mappings ==
    {Field("name", n) @@ Field("headless", h)
        @@ Field("screenshot_on_failure", s) @@ Field("steps", st) :
        n \in NameOpts, h \in HeadlessOpts, s \in ShotOpts, st \in StepsOpts}

Files ==
    {[kind |-> "missing"], [kind |-> "notdict"]}
    \cup {[kind |-> "dict", data |-> d] : d \in Mappings}

\* the files given to --validate: the name key absent, empty or set; the
\* steps key absent, or any list of up to MaxSteps entries drawn from a
\* complete step, one with a parameter no action requires, one lacking one
\* and one lacking both required parameters, an unknown action and an
\* entry without 'action'
ValidateSteps ==
    {[action |-> "click", selector |-> "#a"],
     [action |-> "click", selector |-> "#a", button |-> "right"],
     [action |-> "type", selector |-> "#a"],
     [action |-> "type"],
     [action |-> "fly"],
     [selector |-> "#a"]}

ValidateStepLists == UNION {[1..n -> ValidateSteps] : n \in 0..MaxSteps}

ValidateFiles ==
    {[kind |-> "missing"], [kind |-> "notdict"]}
    \cup {[kind |-> "dict", data |-> Field("name", n) @@ Field("steps", st)] :
            n \in NameOpts \cup {AbsentKey(<<>>)},
            st \in Present(ValidateStepLists) \cup {AbsentKey(<<>>)}}

\* scripts that differ in their timeouts: the timeout key absent or set,
\* and up to MaxSteps steps, each a click or a wait_for_selector, with or
\* without a timeout parameter of its own
TimeoutSteps ==
    {[action |-> "click", selector |-> "#a"],
     [action |-> "click", selector |-> "#a", timeout |-> 100],
     [action |-> "wait_for_selector", selector |-> "#a"],
     [action |-> "wait_for_selector", selector |-> "#a", timeout |-> 100]}

TimeoutFiles ==
    {[kind |-> "dict",
      data |-> Field("name", n) @@ Field("timeout", t) @@ Field("steps", st)] :
        n \in Present({<<"a", " ", "b">>}),
        t \in Present({5000}) \cup {AbsentKey(DefaultTimeout)},
        st \in Present(UNION {[1..n -> TimeoutSteps] : n \in 1..MaxSteps})}

\* script paths given on the command line: p1, p2, ...
Digits == <<"1", "2", "3", "4", "5", "6", "7", "8", "9">>
PathOf(k) == <<"p", Digits[k]>>

\* the browser types an engine is constructed with: one that start()
\* recognises and one that it does not
BrowserTypes == {"chromium", "opera"}

\* -------------------------------------------------------------------- state
VARIABLES
    paths,       \* run_tests: script_paths
    engine,      \* BrowserEngine fields; an object reference is a session id, 0 is None
    sessions,    \* the driver/browser/context objects ever created, by session id
    pc,          \* position of the single thread of control
    ret,         \* who called start()/stop(): "enter", "restart" or "aexit"
    idx,         \* run_tests: 1-based index of the current script_path
    script,      \* run_test_file: the parsed TestScript
    result,      \* execute_script: the in-flight TestResult
    i,           \* execute_script: 1-based index of the current step
    exc,         \* execute_script: message of the exception being propagated
    dispatched,  \* history: the calls of execute_action in this execution
    stopLog,     \* history: the releases attempted by the current stop() call
    results,     \* run_tests: results
    clock,       \* datetime.now(): strictly increasing
    interrupted, \* a KeyboardInterrupt was delivered
    escaped,     \* message of the exception that left run_tests, "" if none
    exitCode,    \* process exit status, -1 while running
    content,     \* main --validate: what the current script_path held
    errors,      \* main --validate: errors of the current script
    all_valid    \* main --validate: all_valid

vars == <<paths, engine, sessions, pc, ret, idx, script, result, i, exc,
          dispatched, stopLog, results, clock, interrupted, escaped,
          exitCode, content, errors, all_valid>>

\* what main owns: the script paths and the locals of its validate branch
mainVars == <<paths, content, errors, all_valid>>

\* main before its validate loop (line 123); run mode never enters it
NoFile == [kind |-> "none"]
ValidateUntouched ==
    /\ content = NoFile
    /\ errors = <<>>
    /\ all_valid = TRUE

\* the locals of run_test_file and execute_script
locals == <<script, result, i, exc, dispatched>>

\* no timeout argument in a driver call, no default set on a page: the
\* driver's own default applies
NoTimeout == 0

NoError == [kind |-> "none"]
RawError(msg) == [kind |-> "raw", msg |-> msg]
\* f"Step {i} failed ({step.action}): {str(e)}"
StepError(k, action, msg) ==
    [kind |-> "step", step |-> k, action |-> action, msg |-> msg]
\* Python truthiness of result.error: None and "" are falsy
Falsy(err) == err.kind = "none" \/ (err.kind = "raw" /\ err.msg = "")

\* TestResult.__init__
TestResult(script_name) ==
    [script_name |-> script_name, passed |-> FALSE, error |-> NoError,
     start_time |-> 0, end_time |-> 0, steps_executed |-> 0,
     steps_total |-> 0, screenshots |-> <<>>]

NoScript ==
    [name |-> <<>>, description |-> <<>>, headless |-> TRUE,
     timeout |-> DefaultTimeout, screenshot_on_failure |-> TRUE,
     steps |-> <<>>]

\* BrowserEngine.__init__ and the call of run_tests
Init ==
    /\ \E n \in 1..MaxBatch : paths = [k \in 1..n |-> PathOf(k)]
    /\ \E h \in BOOLEAN, b \in BrowserTypes :
          engine = [headless |-> h, browser_type |-> b, browser |-> 0,
                    context |-> 0, page |-> 0, actions |-> 0,
                    playwright |-> 0]
    /\ sessions = <<>>
    /\ pc = "start_driver"
    /\ ret = "enter"
    /\ idx = 1
    /\ script = NoScript
    /\ result = TestResult(<<>>)
    /\ i = 0
    /\ exc = ""
    /\ dispatched = <<>>
    /\ stopLog = <<>>
    /\ results = <<>>
    /\ clock = 1
    /\ interrupted = FALSE
    /\ escaped = ""
    /\ exitCode = -1
    /\ ValidateUntouched

\* ------------------------------------------------------- cli/main.py
\* the frames of run_test_file and execute_script are left: their locals die
ResetLocals ==
    /\ script' = NoScript
    /\ result' = TestResult(<<>>)
    /\ i' = 0
    /\ exc' = ""
    /\ dispatched' = <<>>

\* run_tests without the try of lines 46-53: the exception ends the batch
Caught_Abort(msg) ==
    /\ pc' = "done"
    /\ escaped' = msg
    /\ exitCode' = 1
    /\ ResetLocals
    /\ UNCHANGED <<results, idx, interrupted>>

\* run_tests, lines 50-53: the exception of one script becomes a failed
\* TestResult named after the path, and the loop goes on
Caught(msg) ==
    /\ results' = Append(results,
                         [TestResult(paths[idx]) EXCEPT !.error = RawError(msg)])
    /\ idx' = idx + 1
    /\ pc' = "loop"
    /\ ResetLocals
    /\ UNCHANGED <<interrupted, escaped, exitCode>>

\* an exception leaves run_tests and asyncio.run: main catches only
\* KeyboardInterrupt, so the interpreter ends with status 1; when the task
\* was being cancelled by an interrupt the status depends on whether the
\* runtime re-raises the task's exception or the KeyboardInterrupt
Escapes(msg) ==
    /\ pc' = "done"
    /\ escaped' = msg
    /\ exitCode' \in (IF interrupted THEN {1, 130} ELSE {1})
    /\ ResetLocals
    /\ UNCHANGED <<results, idx, interrupted>>

\* start() and stop() have no handler of their own (lines 72-96): called
\* directly, their exception is the caller's, the engine stays as it is
\* and the caller can go on using it
ClientCatches(msg) ==
    /\ pc' = "loop"
    /\ ResetLocals
    /\ UNCHANGED <<results, idx, interrupted, escaped, exitCode>>

\* where an exception raised in start() or stop() goes: __aenter__ and
\* __aexit__ are outside the try of run_tests, run_test_file is inside it
Raise(msg) ==
    IF ret = "restart" THEN Caught(msg)
    ELSE IF ret = "client" THEN ClientCatches(msg)
    ELSE Escapes(msg)

\* ------------------------------------------------- BrowserEngine.start
\* line 74: a new driver handle, stored before anything can fail
StartDriver ==
    /\ pc = "start_driver"
    /\ sessions' = Append(sessions,
                          [driver |-> "live", browser |-> "none",
                           context |-> "none", headless |-> engine.headless,
                           timeout |-> NoTimeout])
    /\ engine' = [engine EXCEPT !.playwright = Len(sessions) + 1]
    /\ pc' = "launch"
    /\ UNCHANGED <<mainVars, ret, idx, results, interrupted, escaped, exitCode,
                   stopLog, locals, clock>>

\* after start(): run_test_file goes on to execute_script, __aenter__ and
\* a direct caller are back between two scripts
AfterStart == IF ret = "restart" THEN "exec_init" ELSE "loop"

\* lines 76-87, launch succeeds: browser, context, page and dispatcher of
\* the new session replace the engine's references
Launch ==
    /\ pc = "launch"
    /\ engine.browser_type \in {"chromium", "firefox", "webkit"}
    /\ sessions' = [sessions EXCEPT ![engine.playwright] =
                        [@ EXCEPT !.browser = "live", !.context = "live",
                                  !.headless = engine.headless]]
    /\ engine' = [engine EXCEPT !.browser = engine.playwright,
                                !.context = engine.playwright,
                                !.page = engine.playwright,
                                !.actions = engine.playwright]
    /\ pc' = AfterStart
    /\ UNCHANGED <<mainVars, ret, idx, results, interrupted, escaped, exitCode,
                   stopLog, locals, clock>>

\* lines 76-83, launch raises (the browser cannot be started) or the type
\* is not recognised: the engine's references keep their old values
LaunchFails ==
    /\ pc = "launch"
    /\ IF engine.browser_type \in {"chromium", "firefox", "webkit"}
       THEN Raise("launch failed")
       ELSE Raise("Unknown browser type")
    /\ UNCHANGED <<mainVars, engine, sessions, ret, stopLog, clock>>

\* -------------------------------------------------- BrowserEngine.stop
\* after stop(): run_test_file line 177-178 sets the mode and starts again,
\* a direct caller is back between two scripts, __aexit__ leaves the with
\* block
AfterStop ==
    IF ret = "restart"
    THEN /\ engine' = [engine EXCEPT !.headless = script.headless]
         /\ pc' = "start_driver"
         /\ UNCHANGED exitCode
    ELSE IF ret = "client"
    THEN /\ engine' = engine
         /\ pc' = "loop"
         /\ UNCHANGED exitCode
    ELSE /\ engine' = engine
         /\ pc' = IF interrupted THEN "done" ELSE "summary"
         /\ exitCode' = IF interrupted THEN 130 ELSE exitCode

\* lines 91-92: if self.context: await self.context.close()
StopContext ==
    /\ pc = "stop_context"
    /\ sessions' = IF engine.context # 0
                   THEN [sessions EXCEPT ![engine.context].context = "closed"]
                   ELSE sessions
    /\ pc' = "stop_browser"
    /\ stopLog' = IF engine.context # 0
                  THEN Append(stopLog, [res |-> "context", out |-> "ok"])
                  ELSE stopLog
    /\ UNCHANGED <<mainVars, engine, ret, idx, results, interrupted, escaped,
                   exitCode, locals, clock>>

\* context.close() raises: stop() is left at once
StopContextFails ==
    /\ pc = "stop_context"
    /\ engine.context # 0
    /\ Raise("context close failed")
    /\ stopLog' = Append(stopLog, [res |-> "context", out |-> "raised"])
    /\ UNCHANGED <<mainVars, engine, sessions, ret, clock>>

\* lines 93-94: if self.browser: await self.browser.close()
StopBrowser ==
    /\ pc = "stop_browser"
    /\ sessions' = IF engine.browser # 0
                   THEN [sessions EXCEPT ![engine.browser].browser = "closed"]
                   ELSE sessions
    /\ pc' = "stop_driver"
    /\ stopLog' = IF engine.browser # 0
                  THEN Append(stopLog, [res |-> "browser", out |-> "ok"])
                  ELSE stopLog
    /\ UNCHANGED <<mainVars, engine, ret, idx, results, interrupted, escaped,
                   exitCode, locals, clock>>

\* browser.close() raises: stop() is left at once
StopBrowserFails ==
    /\ pc = "stop_browser"
    /\ engine.browser # 0
    /\ Raise("browser close failed")
    /\ stopLog' = Append(stopLog, [res |-> "browser", out |-> "raised"])
    /\ UNCHANGED <<mainVars, engine, sessions, ret, clock>>

\* lines 95-96: if hasattr(self, 'playwright'): await self.playwright.stop()
StopDriver ==
    /\ pc = "stop_driver"
    /\ sessions' = IF engine.playwright # 0
                   THEN [sessions EXCEPT ![engine.playwright].driver = "stopped"]
                   ELSE sessions
    /\ AfterStop
    /\ stopLog' = IF engine.playwright # 0
                  THEN Append(stopLog, [res |-> "driver", out |-> "ok"])
                  ELSE stopLog
    /\ UNCHANGED <<mainVars, ret, idx, results, interrupted, escaped, locals, clock>>

\* playwright.stop() raises
StopDriverFails ==
    /\ pc = "stop_driver"
    /\ engine.playwright # 0
    /\ Raise("driver stop failed")
    /\ stopLog' = Append(stopLog, [res |-> "driver", out |-> "raised"])
    /\ UNCHANGED <<mainVars, engine, sessions, ret, clock>>

\* --------------------------------------------- BrowserEngine.run_test_file
\* run_tests line 45-47 and run_test_file lines 162-167: the next path is
\* loaded and validated; a load error or a non-empty error list raises,
\* and run_tests catches it
LoadFails ==
    /\ pc = "loop"
    /\ idx <= Len(paths)
    /\ \E file \in Files :
          /\ ParseOutcome(file) # "ok"
          /\ Caught(ParseOutcome(file))
    /\ UNCHANGED <<mainVars, engine, sessions, ret, stopLog, clock>>

ValidationFails ==
    /\ pc = "loop"
    /\ idx <= Len(paths)
    /\ \E file \in Files :
          /\ ParseOutcome(file) = "ok"
          /\ validate_script(parse_file(file)) # <<>>
          /\ Caught("Script validation failed")
    /\ UNCHANGED <<mainVars, engine, sessions, ret, stopLog, clock>>

\* Load without the check of the error list (lines 166-167 dropped)
Load_NoValidate ==
    /\ pc = "loop"
    /\ idx <= Len(paths)
    /\ \E file \in Files :
          /\ ParseOutcome(file) = "ok"
          /\ script' = parse_file(file)
    /\ pc' = "config"
    /\ UNCHANGED <<mainVars, engine, sessions, ret, idx, stopLog, result, i, exc,
                   dispatched, results, clock, interrupted, escaped,
                   exitCode>>

Load ==
    /\ pc = "loop"
    /\ idx <= Len(paths)
    /\ \E file \in Files :
          /\ ParseOutcome(file) = "ok"
          /\ validate_script(parse_file(file)) = <<>>
          /\ script' = parse_file(file)
    /\ pc' = "config"
    /\ UNCHANGED <<mainVars, engine, sessions, ret, idx, stopLog, result, i, exc,
                   dispatched, results, clock, interrupted, escaped,
                   exitCode>>

\* lines 174-178: no browser yet, or the script's mode differs from the
\* engine's: stop the session if there is one, then start in the new mode
Restart ==
    /\ pc = "config"
    /\ engine.browser = 0 \/ script.headless # engine.headless
    /\ ret' = "restart"
    /\ IF engine.browser # 0
       THEN /\ pc' = "stop_context"
            /\ stopLog' = <<>>
            /\ engine' = engine
       ELSE /\ pc' = "start_driver"
            /\ stopLog' = stopLog
            /\ engine' = [engine EXCEPT !.headless = script.headless]
    /\ UNCHANGED <<mainVars, sessions, idx, results, interrupted, escaped,
                   exitCode, locals, clock>>

\* line 180 reached with the session kept
KeepSession ==
    /\ pc = "config"
    /\ ~(engine.browser = 0 \/ script.headless # engine.headless)
    /\ pc' = "exec_init"
    /\ UNCHANGED <<mainVars, engine, sessions, ret, idx, results, interrupted,
                   escaped, exitCode, stopLog, locals, clock>>

\* ------------------------------------------------------ engine/actions.py
\* the callables getattr(self, action, None) finds on a BrowserActions and
\* the positional parameters each requires: the 19 action methods have the
\* names and required parameters of valid_actions, execute_action is
\* itself a method
Methods == valid_actions @@ [execute_action |-> <<"action", "params">>]
\* attributes that are not callable
OtherAttributes == {"page"}

\* is the session the dispatcher's page belongs to still open
PageLive(id) ==
    /\ id # 0
    /\ sessions[id].driver = "live"
    /\ sessions[id].browser = "live"
    /\ sessions[id].context = "live"

\* wait_for_selector(self, selector, timeout=30000, **kwargs), line 25
SelectorTimeout == 30000

\* the action methods that hand **kwargs on to their driver call
ForwardsKwargs ==
    {"navigate", "click", "type", "wait_for_selector", "assert_text",
     "assert_visible", "upload_file", "screenshot", "select_option",
     "check", "uncheck", "hover", "press", "evaluate_js"}

\* the timeout argument the method of a step hands to its driver call:
\* wait_for_selector always hands one (line 27), its own default if the
\* step has none; the others hand on what the step's parameters hold
TimeoutArg(step) ==
    IF step.action = "wait_for_selector"
    THEN Get(step.params, "timeout", SelectorTimeout)
    ELSE IF step.action \in ForwardsKwargs
    THEN Get(step.params, "timeout", NoTimeout)
    ELSE NoTimeout

\* BrowserActions.execute_action: the possible outcomes of one call, "ok"
\* or the message of the exception, whether the driver is called and with
\* which timeout argument
ExecuteAction(step, id) ==
    IF step.action \notin (DOMAIN Methods) \cup OtherAttributes
    THEN {[out |-> "Unknown action", driver |-> FALSE, timeout |-> NoTimeout]}
    ELSE IF step.action \in OtherAttributes
    THEN {[out |-> "TypeError", driver |-> FALSE, timeout |-> NoTimeout]}
    ELSE IF \E k \in 1..Len(Methods[step.action]) :
                Methods[step.action][k] \notin DOMAIN step.params
    THEN {[out |-> "TypeError", driver |-> FALSE, timeout |-> NoTimeout]}
    ELSE IF PageLive(id)
    THEN {[out |-> "ok", driver |-> TRUE, timeout |-> TimeoutArg(step)],
          [out |-> "driver error", driver |-> TRUE,
           timeout |-> TimeoutArg(step)]}
    ELSE {[out |-> "driver error", driver |-> TRUE,
           timeout |-> TimeoutArg(step)]}

\* ------------------------------------------- BrowserEngine.execute_script
\* lines 108-114: a fresh TestResult, start_time, steps_total, then the
\* page's default timeout is set
NewResult ==
    [TestResult(script.name) EXCEPT !.start_time = clock,
                                    !.steps_total = Len(script.steps)]

ExecInit ==
    /\ pc = "exec_init"
    /\ result' = NewResult
    /\ clock' = clock + 1
    /\ dispatched' = <<>>
    /\ i' = 1
    /\ exc' = ""
    /\ pc' = "step"
    /\ sessions' = [sessions EXCEPT ![engine.page].timeout = script.timeout]
    /\ UNCHANGED <<mainVars, engine, ret, idx, script, stopLog,
                   results, interrupted, escaped, exitCode>>

\* line 114 raises: the outer handler is entered with no step dispatched
TimeoutSetupFails ==
    /\ pc = "exec_init"
    /\ result' = NewResult
    /\ clock' = clock + 1
    /\ dispatched' = <<>>
    /\ i' = 1
    /\ exc' = "set_default_timeout failed"
    /\ pc' = "outer_except"
    /\ UNCHANGED <<mainVars, engine, sessions, ret, idx, script, stopLog,
                   results, interrupted, escaped, exitCode>>

\* lines 117-121: step i is handed to the dispatcher and returns
StepOk ==
    /\ pc = "step"
    /\ i <= Len(script.steps)
    /\ \E o \in ExecuteAction(script.steps[i], engine.actions) :
          /\ o.out = "ok"
          /\ dispatched' = Append(dispatched,
                                  [index |-> i, step |-> script.steps[i],
                                   out |-> o.out, driver |-> o.driver,
                                   timeout |-> o.timeout])
    /\ result' = [result EXCEPT !.steps_executed = @ + 1]
    /\ i' = i + 1
    /\ UNCHANGED <<mainVars, engine, sessions, pc, ret, idx, script, exc,
                   stopLog, results, clock, interrupted, escaped, exitCode>>

\* StepFails with the failing step counted (line 121 run before line 120)
StepFails_CountsFailing ==
    /\ pc = "step"
    /\ i <= Len(script.steps)
    /\ \E o \in ExecuteAction(script.steps[i], engine.actions) :
          /\ o.out # "ok"
          /\ dispatched' = Append(dispatched,
                                  [index |-> i, step |-> script.steps[i],
                                   out |-> o.out, driver |-> o.driver,
                                   timeout |-> o.timeout])
          /\ result' = [result EXCEPT
                            !.steps_executed = @ + 1,
                            !.error = StepError(i, script.steps[i].action, o.out)]
          /\ exc' = o.out
    /\ pc' = IF script.screenshot_on_failure THEN "shot" ELSE "outer_except"
    /\ UNCHANGED <<mainVars, engine, sessions, ret, idx, script, i, stopLog,
                   results, clock, interrupted, escaped, exitCode>>

\* StepFails with the exception swallowed: the loop goes on to the next step
StepFails_Continue ==
    /\ pc = "step"
    /\ i <= Len(script.steps)
    /\ \E o \in ExecuteAction(script.steps[i], engine.actions) :
          /\ o.out # "ok"
          /\ dispatched' = Append(dispatched,
                                  [index |-> i, step |-> script.steps[i],
                                   out |-> o.out, driver |-> o.driver,
                                   timeout |-> o.timeout])
          /\ result' = [result EXCEPT
                            !.error = StepError(i, script.steps[i].action, o.out)]
          /\ exc' = o.out
    /\ i' = i + 1
    /\ UNCHANGED <<mainVars, engine, sessions, pc, ret, idx, script, stopLog,
                   results, clock, interrupted, escaped, exitCode>>

\* lines 122-125: step i raises; the message names the step and its action
StepFails ==
    /\ pc = "step"
    /\ i <= Len(script.steps)
    /\ \E o \in ExecuteAction(script.steps[i], engine.actions) :
          /\ o.out # "ok"
          /\ dispatched' = Append(dispatched,
                                  [index |-> i, step |-> script.steps[i],
                                   out |-> o.out, driver |-> o.driver,
                                   timeout |-> o.timeout])
          /\ result' = [result EXCEPT
                            !.error = StepError(i, script.steps[i].action, o.out)]
          /\ exc' = o.out
    /\ pc' = IF script.screenshot_on_failure THEN "shot" ELSE "outer_except"
    /\ UNCHANGED <<mainVars, engine, sessions, ret, idx, script, i, stopLog,
                   results, clock, interrupted, escaped, exitCode>>

\* f"failure_{script.name.replace(' ', '_')}_{i}.png"
Replace(name) ==
    [k \in 1..Len(name) |-> IF name[k] = " " THEN "_" ELSE name[k]]
ScreenshotPath(name, k) == [name |-> Replace(name), index |-> k]

\* Screenshot naming the file after the 0-based index of the step
Screenshot_ZeroBased ==
    /\ pc = "shot"
    /\ PageLive(engine.page)
    /\ result' = [result EXCEPT !.screenshots =
                      Append(@, ScreenshotPath(script.name, i - 1))]
    /\ pc' = "outer_except"
    /\ UNCHANGED <<mainVars, engine, sessions, ret, idx, script, i, exc,
                   dispatched, stopLog, results, clock, interrupted, escaped,
                   exitCode>>

\* lines 127-133: the failure screenshot is written and its path appended,
\* then the step's exception is re-raised
Screenshot ==
    /\ pc = "shot"
    /\ PageLive(engine.page)
    /\ result' = [result EXCEPT !.screenshots =
                      Append(@, ScreenshotPath(script.name, i))]
    /\ pc' = "outer_except"
    /\ UNCHANGED <<mainVars, engine, sessions, ret, idx, script, i, exc,
                   dispatched, stopLog, results, clock, interrupted, escaped,
                   exitCode>>

\* line 129 raises: the new exception replaces the step's
ScreenshotFails ==
    /\ pc = "shot"
    /\ exc' = "screenshot failed"
    /\ pc' = "outer_except"
    /\ UNCHANGED <<mainVars, engine, sessions, ret, idx, script, result, i,
                   dispatched, stopLog, results, clock, interrupted, escaped,
                   exitCode>>

\* lines 135-136: the loop ended without an exception
Passed ==
    /\ pc = "step"
    /\ i > Len(script.steps)
    /\ result' = [result EXCEPT !.passed = TRUE]
    /\ pc' = "finally"
    /\ UNCHANGED <<mainVars, engine, sessions, ret, idx, script, i, exc,
                   dispatched, stopLog, results, clock, interrupted, escaped,
                   exitCode>>

\* OuterExcept without the guard of line 140: error is always overwritten
OuterExcept_Overwrite ==
    /\ pc = "outer_except"
    /\ result' = [result EXCEPT !.passed = FALSE, !.error = RawError(exc)]
    /\ pc' = "finally"
    /\ UNCHANGED <<mainVars, engine, sessions, ret, idx, script, i, exc,
                   dispatched, stopLog, results, clock, interrupted, escaped,
                   exitCode>>

\* lines 138-142
OuterExcept ==
    /\ pc = "outer_except"
    /\ result' = [result EXCEPT !.passed = FALSE,
                                !.error = IF Falsy(@) THEN RawError(exc) ELSE @]
    /\ pc' = "finally"
    /\ UNCHANGED <<mainVars, engine, sessions, ret, idx, script, i, exc,
                   dispatched, stopLog, results, clock, interrupted, escaped,
                   exitCode>>

\* Finally with line 135 (passed = True) moved into the finally block
Finally_MarksPassed ==
    /\ pc = "finally"
    /\ result' = [result EXCEPT !.end_time = clock, !.passed = TRUE]
    /\ clock' = clock + 1
    /\ pc' = "return"
    /\ UNCHANGED <<mainVars, engine, sessions, ret, idx, script, i, exc,
                   dispatched, stopLog, results, interrupted, escaped,
                   exitCode>>

\* end_time assigned at the end of the try block (after line 135) instead
\* of in a finally clause
Finally_OnlyOnSuccess ==
    /\ pc = "finally"
    /\ result' = IF result.passed THEN [result EXCEPT !.end_time = clock]
                  ELSE result
    /\ clock' = clock + 1
    /\ pc' = "return"
    /\ UNCHANGED <<mainVars, engine, sessions, ret, idx, script, i, exc,
                   dispatched, stopLog, results, interrupted, escaped,
                   exitCode>>

\* lines 144-145
Finally ==
    /\ pc = "finally"
    /\ result' = [result EXCEPT !.end_time = clock]
    /\ clock' = clock + 1
    /\ pc' = "return"
    /\ UNCHANGED <<mainVars, engine, sessions, ret, idx, script, i, exc,
                   dispatched, stopLog, results, interrupted, escaped,
                   exitCode>>

\* line 147, run_test_file line 180, run_tests lines 47-49
Return ==
    /\ pc = "return"
    /\ results' = Append(results, result)
    /\ idx' = idx + 1
    /\ pc' = "loop"
    /\ ResetLocals
    /\ UNCHANGED <<mainVars, engine, sessions, ret, stopLog, interrupted,
                   escaped, exitCode, clock>>

\* ------------------------------------------------------- cli/main.py
\* run_tests line 44: the loop is over, the with block calls __aexit__
ExitWith ==
    /\ pc = "loop"
    /\ idx > Len(paths)
    /\ pc' = "stop_context"
    /\ ret' = "aexit"
    /\ stopLog' = <<>>
    /\ UNCHANGED <<mainVars, engine, sessions, idx, results, interrupted,
                   escaped, exitCode, locals, clock>>

\* run_tests lines 56-63 and main line 150
Failed == Len(SelectSeq(results, LAMBDA r : ~r.passed))
Summary ==
    /\ pc = "summary"
    /\ exitCode' = IF Failed = 0 THEN 0 ELSE 1
    /\ pc' = "done"
    /\ UNCHANGED <<mainVars, engine, sessions, ret, idx, results, interrupted,
                   escaped, stopLog, locals, clock>>

\* main lines 151-153: a KeyboardInterrupt cancels the task at the point
\* it has reached. Neither except Exception clause catches the
\* cancellation; the finally of execute_script and __aexit__ run while it
\* unwinds, except that __aenter__ has no __aexit__ yet and a stop() that
\* is itself cancelled does not finish
StartPcs == {"start_driver", "launch"}
StopPcs == {"stop_context", "stop_browser", "stop_driver"}
TryPcs == {"step", "shot", "outer_except", "finally"}

Interrupt ==
    /\ pc # "done"
    /\ ~interrupted
    /\ interrupted' = TRUE
    /\ ResetLocals
    /\ IF \/ pc \in StartPcs /\ ret = "enter"
          \/ pc \in StopPcs /\ ret = "aexit"
          \/ pc = "summary"
       THEN /\ pc' = "done"
            /\ exitCode' = 130
            /\ UNCHANGED <<ret, stopLog, clock>>
       ELSE /\ pc' = "stop_context"
            /\ ret' = "aexit"
            /\ stopLog' = <<>>
            /\ exitCode' = exitCode
            /\ clock' = IF pc \in TryPcs THEN clock + 1 ELSE clock
    /\ UNCHANGED <<mainVars, engine, sessions, idx, results, escaped>>

Next ==
    \/ StartDriver \/ Launch \/ LaunchFails
    \/ StopContext \/ StopContextFails
    \/ StopBrowser \/ StopBrowserFails
    \/ StopDriver \/ StopDriverFails
    \/ LoadFails \/ ValidationFails \/ Load
    \/ Restart \/ KeepSession
    \/ ExecInit \/ TimeoutSetupFails
    \/ StepOk \/ StepFails
    \/ Screenshot \/ ScreenshotFails
    \/ Passed \/ OuterExcept \/ Finally \/ Return
    \/ ExitWith \/ Summary \/ Interrupt

Spec == Init /\ [][Next]_vars

\* ------------------------------------------- the engine used as a library
\* BrowserEngine.__init__ (lines 48-61) by a caller that drives start(),
\* stop() and run_test_file() itself: nothing is started by construction
InitEngine ==
    /\ \E n \in 1..MaxBatch : paths = [k \in 1..n |-> PathOf(k)]
    /\ \E h \in BOOLEAN, b \in BrowserTypes :
          engine = [headless |-> h, browser_type |-> b, browser |-> 0,
                    context |-> 0, page |-> 0, actions |-> 0,
                    playwright |-> 0]
    /\ sessions = <<>>
    /\ pc = "loop"
    /\ ret = "client"
    /\ idx = 1
    /\ script = NoScript
    /\ result = TestResult(<<>>)
    /\ i = 0
    /\ exc = ""
    /\ dispatched = <<>>
    /\ stopLog = <<>>
    /\ results = <<>>
    /\ clock = 1
    /\ interrupted = FALSE
    /\ escaped = ""
    /\ exitCode = -1
    /\ ValidateUntouched

\* a call of the public start() (line 72) between two scripts; the number
\* of direct calls is capped by MaxBatch
ClientStart ==
    /\ pc = "loop"
    /\ Len(sessions) < MaxBatch
    /\ pc' = "start_driver"
    /\ ret' = "client"
    /\ UNCHANGED <<mainVars, engine, sessions, idx, results, interrupted,
                   escaped, exitCode, stopLog, locals, clock>>

\* a call of the public stop() (line 89) between two scripts
ClientStop ==
    /\ pc = "loop"
    /\ pc' = "stop_context"
    /\ ret' = "client"
    /\ stopLog' = <<>>
    /\ UNCHANGED <<mainVars, engine, sessions, idx, results, interrupted,
                   escaped, exitCode, locals, clock>>

NextEngine ==
    \/ ClientStart \/ ClientStop
    \/ StartDriver \/ Launch \/ LaunchFails
    \/ StopContext \/ StopContextFails
    \/ StopBrowser \/ StopBrowserFails
    \/ StopDriver \/ StopDriverFails
    \/ LoadFails \/ ValidationFails \/ Load
    \/ Restart \/ KeepSession
    \/ ExecInit \/ TimeoutSetupFails
    \/ StepOk \/ StepFails
    \/ Screenshot \/ ScreenshotFails
    \/ Passed \/ OuterExcept \/ Finally \/ Return

SpecEngine == InitEngine /\ [][NextEngine]_vars

\* --------------------------------- the dispatcher called without validation
\* the action names handed to execute_action: every name getattr finds on a
\* BrowserActions in this model, a name it does not find, the empty name
DispatchNames == (DOMAIN Methods) \cup OtherAttributes \cup {"fly", ""}

\* the parameter mappings handed over with a name: none, a selector only,
\* and all the positional parameters of the callable of that name
DispatchParams(action) ==
    {[k \in keys |-> "v"] :
        keys \in {{}, {"selector"}}
                 \cup (IF action \in DOMAIN Methods
                       THEN {{Methods[action][k] :
                                k \in 1..Len(Methods[action])}}
                       ELSE {})}

\* BrowserActions(page) (lines 10-11) on the page of a session that is
\* open or already closed, and one call of execute_action pending
InitDispatch ==
    /\ paths = <<>>
    /\ engine = [headless |-> TRUE, browser_type |-> "chromium",
                 browser |-> 1, context |-> 1, page |-> 1, actions |-> 1,
                 playwright |-> 1]
    /\ \E st \in {"live", "closed"} :
          sessions = <<[driver |-> "live", browser |-> st, context |-> st,
                        headless |-> TRUE, timeout |-> NoTimeout]>>
    /\ \E a \in DispatchNames : \E p \in DispatchParams(a) :
          script = [NoScript EXCEPT
                        !.steps = <<[action |-> a, params |-> p]>>]
    /\ pc = "call"
    /\ ret = "client"
    /\ idx = 1
    /\ result = TestResult(<<>>)
    /\ i = 1
    /\ exc = ""
    /\ dispatched = <<>>
    /\ stopLog = <<>>
    /\ results = <<>>
    /\ clock = 1
    /\ interrupted = FALSE
    /\ escaped = ""
    /\ exitCode = -1
    /\ ValidateUntouched

\* lines 107-122: one call of execute_action returns or raises
Dispatch ==
    /\ pc = "call"
    /\ \E o \in ExecuteAction(script.steps[i], engine.actions) :
          /\ dispatched' = Append(dispatched,
                                  [index |-> i, step |-> script.steps[i],
                                   out |-> o.out, driver |-> o.driver,
                                   timeout |-> o.timeout])
          /\ exc' = IF o.out = "ok" THEN "" ELSE o.out
    /\ pc' = "called"
    /\ UNCHANGED <<mainVars, engine, sessions, ret, idx, script, result, i,
                   stopLog, results, clock, interrupted, escaped, exitCode>>

SpecDispatch == InitDispatch /\ [][Dispatch]_vars

\* ------------------------------- execute_script on a session just started
\* run_test_file line 180 reached for the first script of a batch: the
\* script is loaded and valid, the session of __aenter__ is live and in
\* the script's mode
InitTimeout ==
    /\ paths = <<PathOf(1)>>
    /\ engine = [headless |-> TRUE, browser_type |-> "chromium",
                 browser |-> 1, context |-> 1, page |-> 1, actions |-> 1,
                 playwright |-> 1]
    /\ sessions = <<[driver |-> "live", browser |-> "live",
                     context |-> "live", headless |-> TRUE,
                     timeout |-> NoTimeout]>>
    /\ \E f \in TimeoutFiles :
          /\ ParseOutcome(f) = "ok"
          /\ validate_script(parse_file(f)) = <<>>
          /\ script = parse_file(f)
    /\ pc = "exec_init"
    /\ ret = "enter"
    /\ idx = 1
    /\ result = TestResult(<<>>)
    /\ i = 0
    /\ exc = ""
    /\ dispatched = <<>>
    /\ stopLog = <<>>
    /\ results = <<>>
    /\ clock = 1
    /\ interrupted = FALSE
    /\ escaped = ""
    /\ exitCode = -1
    /\ ValidateUntouched

NextTimeout ==
    \/ ExecInit \/ TimeoutSetupFails
    \/ StepOk \/ StepFails
    \/ Screenshot \/ ScreenshotFails
    \/ Passed \/ OuterExcept \/ Finally

SpecTimeout == InitTimeout /\ [][NextTimeout]_vars

\* ------------------------------------------------ cli/main.py, --validate
\* main line 122-123: validate mode, no engine is constructed
InitValidate ==
    /\ \E n \in 1..MaxBatch : paths = [k \in 1..n |-> PathOf(k)]
    /\ engine = [headless |-> TRUE, browser_type |-> "chromium",
                 browser |-> 0, context |-> 0, page |-> 0, actions |-> 0,
                 playwright |-> 0]
    /\ sessions = <<>>
    /\ pc = "validate"
    /\ ret = "enter"
    /\ idx = 1
    /\ script = NoScript
    /\ result = TestResult(<<>>)
    /\ i = 0
    /\ exc = ""
    /\ dispatched = <<>>
    /\ stopLog = <<>>
    /\ results = <<>>
    /\ clock = 1
    /\ interrupted = FALSE
    /\ escaped = ""
    /\ exitCode = -1
    /\ ValidateUntouched

\* lines 125-127 and 140-142: parse_file raises, the error is printed
ValidateRaises ==
    /\ pc = "validate"
    /\ idx <= Len(paths)
    /\ \E f \in ValidateFiles :
          /\ ParseOutcome(f) # "ok"
          /\ content' = f
          /\ exc' = ParseOutcome(f)
    /\ script' = NoScript
    /\ errors' = <<>>
    /\ all_valid' = FALSE
    /\ idx' = idx + 1
    /\ UNCHANGED <<paths, engine, sessions, pc, ret, result, i, dispatched,
                   stopLog, results, clock, interrupted, escaped, exitCode>>

\* lines 127-134: the error list is not empty and is printed
ValidateFails ==
    /\ pc = "validate"
    /\ idx <= Len(paths)
    /\ \E f \in ValidateFiles :
          /\ ParseOutcome(f) = "ok"
          /\ validate_script(parse_file(f)) # <<>>
          /\ content' = f
          /\ script' = parse_file(f)
          /\ errors' = validate_script(parse_file(f))
    /\ exc' = ""
    /\ all_valid' = FALSE
    /\ idx' = idx + 1
    /\ UNCHANGED <<paths, engine, sessions, pc, ret, result, i, dispatched,
                   stopLog, results, clock, interrupted, escaped, exitCode>>

\* lines 127-128 and 135-137: the error list is empty
ValidateOk ==
    /\ pc = "validate"
    /\ idx <= Len(paths)
    /\ \E f \in ValidateFiles :
          /\ ParseOutcome(f) = "ok"
          /\ validate_script(parse_file(f)) = <<>>
          /\ content' = f
          /\ script' = parse_file(f)
          /\ errors' = validate_script(parse_file(f))
    /\ exc' = ""
    /\ idx' = idx + 1
    /\ UNCHANGED <<paths, engine, sessions, pc, ret, result, i, dispatched,
                   stopLog, results, clock, interrupted, escaped, exitCode,
                   all_valid>>

\* line 143: return 0 if all_valid else 1
ValidateExit ==
    /\ pc = "validate"
    /\ idx > Len(paths)
    /\ exitCode' = IF all_valid THEN 0 ELSE 1
    /\ pc' = "done"
    /\ UNCHANGED <<mainVars, engine, sessions, ret, idx, locals, stopLog,
                   results, clock, interrupted, escaped>>

NextValidate ==
    ValidateRaises \/ ValidateFails \/ ValidateOk \/ ValidateExit

SpecValidate == InitValidate /\ [][NextValidate]_vars

\* ==================================================================
\* Properties
\* ==================================================================
ExecPcs == {"exec_init", "step", "shot", "outer_except", "finally", "return"}

\* run_test_file is past its validation (line 169 and later)
PastValidation ==
    \/ pc \in {"config"} \cup ExecPcs
    \/ pc \in StartPcs \cup StopPcs /\ ret = "restart"

\* C1: the steps handed to the dispatcher during one execute_script are a
\* prefix of script.steps in script order, each handed over once, and every
\* step but the last one handed over returned without raising: after the
\* first step that raises nothing more is dispatched.
C1_DispatchedIsPrefix ==
    /\ Len(dispatched) <= Len(script.steps)
    /\ \A j \in 1..Len(dispatched) :
          /\ dispatched[j].index = j
          /\ dispatched[j].step = script.steps[j]
    /\ \A j \in 1..(Len(dispatched) - 1) : dispatched[j].out = "ok"

\* a two-step execution has ended: step 1 returned, step 2 raised
C1_Witness ==
    /\ pc = "return"
    /\ Len(script.steps) = 2
    /\ Len(dispatched) = 2
    /\ dispatched[1].out = "ok"
    /\ dispatched[2].out # "ok"

\* C2: a script whose validation error list is non-empty is never executed:
\* whenever run_test_file is past line 167 (deciding on the session,
\* stopping or restarting it, or executing steps) the script it holds has
\* an empty error list, and no validation failure ever leaves run_tests.
C2_InvalidNeverExecuted ==
    /\ PastValidation => validate_script(script) = <<>>
    /\ dispatched # <<>> => validate_script(script) = <<>>
    /\ escaped # "Script validation failed"

\* an invalid script was turned into a failed Result while the session
\* opened at entry stayed as it was and nothing was dispatched
C2_Witness ==
    /\ pc = "loop"
    /\ results # <<>>
    /\ results[Len(results)].error = RawError("Script validation failed")
    /\ dispatched = <<>>
    /\ Len(sessions) = 1
    /\ PageLive(1)

\* the resources the engine holds a reference to, which stop() is to release
Held ==
    (IF engine.context # 0 THEN {"context"} ELSE {})
    \cup (IF engine.browser # 0 THEN {"browser"} ELSE {})
    \cup (IF engine.playwright # 0 THEN {"driver"} ELSE {})

Attempted == {stopLog[j].res : j \in 1..Len(stopLog)}

\* C3: stop() releases context, browser and driver independently: when a
\* call of stop() in which some release raised is over, the release of
\* every resource the engine holds has been attempted.
C3_StopReleasesIndependently ==
    (/\ pc \notin StopPcs
     /\ \E j \in 1..Len(stopLog) : stopLog[j].out = "raised")
    => Held \subseteq Attempted

\* every driver, browser and context ever started has been released
AllReleased ==
    \A id \in 1..Len(sessions) :
        /\ sessions[id].driver = "stopped"
        /\ sessions[id].browser \in {"none", "closed"}
        /\ sessions[id].context \in {"none", "closed"}

\* C4: on every exit path of a batch run, everything that was started has
\* been released by the time the run ends.
C4_ReleasedOnEveryExit == pc = "done" => AllReleased

SessionErrors == {"launch failed", "Unknown browser type"}

\* C5: a session error never leaves run_tests: it is caught per script,
\* so a run that was not interrupted ends with one Result per script path.
C5_SessionErrorsIsolated ==
    (pc = "done" /\ ~interrupted) =>
        /\ escaped \notin SessionErrors
        /\ Len(results) = Len(paths)

LoadErrors ==
    {"Test script not found", "Test script must be a YAML dictionary",
     "KeyError: action", "Script validation failed"}

\* C6: a load or validation failure of one script does not abort the
\* batch: it never leaves run_tests, it yields one Result named after the
\* path with passed = false and error set, the Results collected so far
\* are one per path already handled, in path order, and the loop ends only
\* when every path has its Result.
C6_LoadFailureIsolated ==
    /\ escaped \notin LoadErrors
    /\ Len(results) = idx - 1
    /\ Len(results) <= Len(paths)
    /\ \A k \in 1..Len(results) :
          results[k].error.kind = "raw" /\ results[k].error.msg \in LoadErrors
          => /\ ~results[k].passed
             /\ ~Falsy(results[k].error)
             /\ results[k].script_name = paths[k]
             /\ results[k].steps_executed = 0
    /\ pc = "summary" => Len(results) = Len(paths)

\* the first path failed to load, the second script ran and passed
C6_Witness ==
    /\ pc = "summary"
    /\ Len(results) = 2
    /\ results[1].error = RawError("Test script not found")
    /\ ~results[1].passed
    /\ results[2].passed
    /\ results[2].steps_executed = results[2].steps_total

\* the step of this execution that raised, 0 if none has
FailedStep ==
    IF dispatched # <<>> /\ dispatched[Len(dispatched)].out # "ok"
    THEN Len(dispatched) ELSE 0

\* C7 as stated: a Result is returned with exactly one screenshot, named
\* from the script name with spaces replaced and the 1-based index of the
\* failing step, when a step failed and screenshot_on_failure is set, and
\* with none otherwise.
C7_ScreenshotOnFailure ==
    pc = "return" =>
        IF FailedStep # 0 /\ script.screenshot_on_failure
        THEN /\ Len(result.screenshots) = 1
             /\ result.screenshots[1].index = FailedStep
             /\ Len(result.screenshots[1].name) = Len(script.name)
             /\ \A k \in 1..Len(script.name) :
                   result.screenshots[1].name[k] =
                       IF script.name[k] = " " THEN "_" ELSE script.name[k]
        ELSE result.screenshots = <<>>

\* C7 amended: the same, with exactly one screenshot only when the capture
\* itself did not raise; when it raised, screenshots is empty.
C7_ScreenshotUnlessCaptureRaises ==
    pc = "return" =>
        IF /\ FailedStep # 0
           /\ script.screenshot_on_failure
           /\ exc # "screenshot failed"
        THEN /\ Len(result.screenshots) = 1
             /\ result.screenshots[1].index = FailedStep
             /\ Len(result.screenshots[1].name) = Len(script.name)
             /\ \A k \in 1..Len(script.name) :
                   result.screenshots[1].name[k] =
                       IF script.name[k] = " " THEN "_" ELSE script.name[k]
        ELSE result.screenshots = <<>>

\* step 2 of a script named "a b" failed and its screenshot was taken
C7_Witness ==
    /\ pc = "return"
    /\ FailedStep = 2
    /\ script.screenshot_on_failure
    /\ result.screenshots = <<[name |-> <<"a", "_", "b">>, index |-> 2]>>

\* C8: once a step has failed, error is the message of that step, naming
\* its 1-based index and its action, and stays so whatever is raised later
\* in the same execution.
C8_FirstErrorKept ==
    FailedStep # 0 =>
        result.error = [kind |-> "step",
                        step |-> FailedStep,
                        action |-> script.steps[FailedStep].action,
                        msg |-> dispatched[FailedStep].out]

\* step 2 failed, then the failure screenshot raised, and the Result is
\* about to be returned
C8_Witness ==
    /\ pc = "return"
    /\ FailedStep = 2
    /\ exc = "screenshot failed"
    /\ result.error.kind = "step"

\* C9: a returned Result has passed = true exactly when every step of the
\* script was dispatched and returned and nothing else raised during the
\* execution; a passed Result has steps_executed = steps_total and no error.
C9_PassedIffClean ==
    pc = "return" =>
        /\ result.passed <=>
              /\ Len(dispatched) = Len(script.steps)
              /\ FailedStep = 0
              /\ exc = ""
        /\ result.passed =>
              /\ result.steps_executed = result.steps_total
              /\ result.error = NoError

\* a two-step script passed
C9_Witness ==
    /\ pc = "return"
    /\ result.passed
    /\ result.steps_total = 2
    /\ Len(dispatched) = 2

\* C10: when step k fails, steps_executed is k-1, the number of steps that
\* returned before it, and steps_total is the script's step count however
\* many steps ran.
C10_StepsExecutedExcludesFailing ==
    /\ pc \in TryPcs \cup {"return"} => result.steps_total = Len(script.steps)
    /\ FailedStep # 0 => result.steps_executed = FailedStep - 1

\* step 2 of a two-step script failed: one step counted, two in total
C10_Witness ==
    /\ pc = "return"
    /\ FailedStep = 2
    /\ result.steps_executed = 1
    /\ result.steps_total = 2

\* C11: whenever a step of a script has been dispatched, the session the
\* dispatcher is bound to was launched with headless equal to the script's
\* headless setting.
C11_DispatchedInScriptMode ==
    dispatched # <<>> =>
        /\ engine.actions # 0
        /\ sessions[engine.actions].headless = script.headless

StructuralErrors ==
    {"Test script not found", "Test script must be a YAML dictionary",
     "KeyError: action"}

\* C12: a script's structural errors are surfaced before any browser
\* session is started: when a path has just failed to load (its failed
\* Result is the last one and the loop is at its head), no browser has
\* been launched so far in the run.
C12_LoadErrorsBeforeAnyLaunch ==
    (/\ pc = "loop"
     /\ results # <<>>
     /\ results[Len(results)].error.kind = "raw"
     /\ results[Len(results)].error.msg \in StructuralErrors)
    => \A id \in 1..Len(sessions) : sessions[id].browser = "none"

\* every script path of the batch has a Result with passed = true
AllPassed ==
    /\ Len(results) = Len(paths)
    /\ \A k \in 1..Len(results) : results[k].passed

\* C13: when the run is over, the exit code is 130 if the run was
\* interrupted; otherwise it is 0 if every script of the batch produced a
\* Result with passed = true and 1 if not.
C13_ExitCode ==
    pc = "done" =>
        IF interrupted THEN exitCode = 130
        ELSE IF AllPassed THEN exitCode = 0
        ELSE exitCode = 1

\* a Result built by execute_script (the Results of run_tests line 51 have
\* no start_time)
Executed(r) == r.start_time > 0

\* the clock has ticked once since start_time was stamped and end_time
\* holds the reading of that one tick
StampedOnce(r) == r.end_time = r.start_time + 1

\* C18: on every path through execute_script, end_time is unset from the
\* stamping of start_time until the finally clause, is stamped there
\* exactly once, after start_time, and the Result is returned with that
\* stamp.
C18_EndTimeStampedOnce ==
    /\ pc \in TryPcs => Executed(result) /\ result.end_time = 0
    /\ pc = "return" => Executed(result) /\ StampedOnce(result)
    /\ \A k \in 1..Len(results) :
          Executed(results[k]) => StampedOnce(results[k])

C18_Witness ==
    /\ Len(results) = 1
    /\ results[1].passed
    /\ StampedOnce(results[1])
    /\ pc = "return"
    /\ ~result.passed
    /\ StampedOnce(result)

LiveBrowsers ==
    {id \in 1..Len(sessions) : sessions[id].browser = "live"}

\* C19: across any sequence of start, stop and run_test_file calls, at most
\* one browser launched by the engine is live at a time.
C19_OneLiveBrowser == Cardinality(LiveBrowsers) <= 1

\* C20: in a batch that is not interrupted, steps are dispatched only
\* against a session that is live (driver, browser and context open), and
\* when stop() reaches the context or the browser the engine refers to,
\* that resource has not been released before.
C20_NoUseAfterStop ==
    ~interrupted =>
        /\ dispatched # <<>> => PageLive(engine.actions)
        /\ (pc = "stop_context" /\ engine.context # 0)
              => sessions[engine.context].context = "live"
        /\ (pc = "stop_browser" /\ engine.browser # 0)
              => sessions[engine.browser].browser = "live"

\* C14: every call of execute_action with a name that is not one of the 19
\* registered actions fails with the "Unknown action" error and makes no
\* driver call.
C14_UnregisteredIsUnknown ==
    \A k \in 1..Len(dispatched) :
        dispatched[k].step.action \notin DOMAIN valid_actions
            => /\ dispatched[k].out = "Unknown action"
               /\ ~dispatched[k].driver

\* the last script --validate handled was parsed and validated
Validated ==
    /\ idx > 1
    /\ content.kind = "dict"
    /\ ParseOutcome(content) = "ok"

\* C15: a validate-only run that ends with a script file whose only
\* defect is that it has no name field (it parses, has steps, and every
\* step is a registered action with its required parameters) has reported
\* "Script must have a name" for it and exits with code 1.
C15_MissingNameRejected ==
    (/\ pc = "done"
     /\ Validated
     /\ "name" \notin DOMAIN content.data
     /\ script.steps # <<>>
     /\ AllStepErrors(script.steps, 1) = <<>>)
    => /\ \E k \in 1..Len(errors) : errors[k] = [kind |-> "no_name"]
       /\ exitCode = 1

\* step j of the validated script, read against the registry
Unregistered(j) == script.steps[j].action \notin DOMAIN valid_actions
Required(j) ==
    {valid_actions[script.steps[j].action][k] :
        k \in 1..Len(valid_actions[script.steps[j].action])}
Lacking(j) == Required(j) \ DOMAIN script.steps[j].params
Offending(j) == Unregistered(j) \/ Lacking(j) # {}

IsStepLevel(e) == e.kind \in {"unknown_action", "missing_params"}
StepLevelErrors == SelectSeq(errors, IsStepLevel)
ErrorsOf(j) ==
    SelectSeq(errors, LAMBDA e : IsStepLevel(e) /\ e.step = j)

\* C16: for the script just validated, every step-level error belongs to
\* a step of the script; an offending step has exactly one and any other
\* step none; the error of a step with an unregistered action is the
\* unknown-action error for that action; the error of a registered step
\* that lacks required parameters names exactly the lacking ones, each
\* once; a script with a non-empty name, at least one step and no
\* offending step has an empty error list.
C16_OneErrorPerOffendingStep ==
    Validated =>
        /\ \A k \in 1..Len(StepLevelErrors) :
              StepLevelErrors[k].step \in 1..Len(script.steps)
        /\ \A j \in 1..Len(script.steps) :
              /\ Len(ErrorsOf(j)) = IF Offending(j) THEN 1 ELSE 0
              /\ Unregistered(j) =>
                    /\ ErrorsOf(j)[1].kind = "unknown_action"
                    /\ ErrorsOf(j)[1].action = script.steps[j].action
              /\ (~Unregistered(j) /\ Lacking(j) # {}) =>
                    /\ ErrorsOf(j)[1].kind = "missing_params"
                    /\ ErrorsOf(j)[1].action = script.steps[j].action
                    /\ {ErrorsOf(j)[1].missing[k] :
                          k \in 1..Len(ErrorsOf(j)[1].missing)} = Lacking(j)
                    /\ Len(ErrorsOf(j)[1].missing) = Cardinality(Lacking(j))
        /\ (/\ script.name # <<>>
            /\ script.steps # <<>>
            /\ \A j \in 1..Len(script.steps) : ~Offending(j))
           => errors = <<>>

C16_Witness ==
    /\ Validated
    /\ Len(script.steps) = 2
    /\ Unregistered(1)
    /\ ~Unregistered(2)
    /\ Cardinality(Lacking(2)) = 2
    /\ Len(StepLevelErrors) = 2

\* C17 as stated: for the script just validated, if it has zero steps the
\* error list is exactly the one "must have at least one step" error.
C17_ZeroStepsExactlyNoSteps ==
    (Validated /\ script.steps = <<>>) => errors = <<[kind |-> "no_steps"]>>

\* C17 amended: for the script just validated, if it has zero steps the
\* error list is the name error when the name is empty, followed by the
\* one "must have at least one step" error, and nothing else: no
\* step-level error.
C17_ZeroStepsNoStepLevel ==
    (Validated /\ script.steps = <<>>) =>
        errors = (IF script.name = <<>> THEN <<[kind |-> "no_name"]>>
                  ELSE <<>>)
                 \o <<[kind |-> "no_steps"]>>

C17_Witness ==
    /\ Validated
    /\ script.steps = <<>>
    /\ script.name = <<>>
    /\ errors = <<[kind |-> "no_name"], [kind |-> "no_steps"]>>

\* the timeout a driver call runs under: its timeout argument if it was
\* handed one, else the default set on the dispatcher's page
Governing(call) ==
    IF call.timeout # NoTimeout THEN call.timeout
    ELSE sessions[engine.actions].timeout

\* C21: every step handed to the driver that has no timeout parameter of
\* its own runs under the script's timeout.
C21_ScriptTimeoutGoverns ==
    \A k \in 1..Len(dispatched) :
        (/\ dispatched[k].driver
         /\ "timeout" \notin DOMAIN dispatched[k].step.params)
        => Governing(dispatched[k]) = script.timeout

====
